---- MODULE Spec2Model ----
(***************************************************************************)
(* The animal-conflict game of GenerationalResult.py and                   *)
(* OriginalSimulation.py: the strategy classes, play_contest, and the      *)
(* generation loop of evolutionary_simulation.                             *)
(*                                                                         *)
(* Random draws (random.random() < P_INJURY, < PROBE_PROB,                 *)
(* < MUTATION_RATE, random.choices, random.shuffle, random.randrange) are  *)
(* nondeterministic choices.  Frequencies, which the code keeps as floats, *)
(* are exact rationals <<numerator, denominator>>.                         *)
(***************************************************************************)
EXTENDS Integers, Sequences, FiniteSets

VARIABLES
    variant,          \* which source file's classes are in use: "Gen" or "Orig"
    strategyA,        \* play_contest's strategyA: the instance and its fields
    strategyB,        \* play_contest's strategyB
    A_history,
    B_history,
    A_score,
    B_score,
    moves,            \* the loop variable of `for moves in range(MAX_MOVES)`
    A_move,
    B_move,
    pc,               \* position inside play_contest
    result,           \* the returned pair, <<>> until play_contest returns
    A_entry,          \* A_score when the current round began
    B_entry,          \* B_score when the current round began
    rolled,           \* sides whose injury roll was drawn in the current round
    injured,          \* the side an injury roll hit: "none", "A" or "B"
    reused,           \* the two instances already went through a contest
    strategies,       \* evolutionary_simulation's arguments ...
    initial_distribution,
    generations,
    population_size,
    mutation_on,      \* whether MUTATION_RATE > 0
    population,       \* ... and its locals
    gen,
    individuals,
    payoffs,
    i,
    epc,              \* position inside evolutionary_simulation
    fired,            \* this generation's mutation draw fell below MUTATION_RATE
    contests          \* contests resolved so far in this run

contestVars == <<variant, strategyA, strategyB, A_history, B_history, A_score,
                 B_score, moves, A_move, B_move, pc, result, A_entry, B_entry,
                 rolled, injured, reused>>

evoVars == <<strategies, initial_distribution, generations, population_size,
             mutation_on, population, gen, individuals, payoffs, i, epc, fired,
             contests>>

vars == <<contestVars, evoVars>>

(***************************************************************************)
(* Parameters of both source files.                                        *)
(***************************************************************************)
MAX_MOVES == 10
TIME_BONUS_START == 20
TIME_BONUS_DECREMENT == 2
WIN_PAYOFF == 60
SERIOUS_INJURY == -100
SCRATCH == -2

(***************************************************************************)
(* Bounds of the model.                                                    *)
(***************************************************************************)
\* longest move script of a caller-supplied Strategy subclass
MaxScript == 2
\* largest population_size passed to evolutionary_simulation
MaxPopulation == 3
\* largest generations passed to evolutionary_simulation
MaxGenerations == 2

Max(a, b) == IF a >= b THEN a ELSE b
Min(a, b) == IF a <= b THEN a ELSE b
Last(s) == s[Len(s)]

(***************************************************************************)
(* Strategy classes.                                                       *)
(***************************************************************************)
GenKinds == {"Mouse", "Hawk", "Bully", "Retaliator", "ProberRetaliator",
             "LongRetaliator"}
OrigKinds == {"Mouse", "Hawk", "Bully", "Retaliator", "ProberRetaliator"}
Kinds(v) == IF v = "Gen" THEN GenKinds ELSE OrigKinds

\* What a choose_move may hand back: the three legal moves, and "X" for any
\* value outside the alphabet.
LegalMoves == {"C", "D", "R"}
Returnable == LegalMoves \cup {"X"}

\* A subclass of Strategy written by a caller of play_contest: it plays its
\* script move by move and repeats the last one.  Scripts that only repeat
\* another script's behaviour are left out.
Scripts ==
    { s \in UNION { [1..n -> Returnable] : n \in 1..MaxScript } :
        /\ \A k \in 1..(Len(s) - 1) : s[k] # "R"
        /\ Len(s) >= 2 => s[Len(s)] # s[Len(s) - 1] }

\* The fields a class does not own stay at these values.
NoFields == [opponent_d_played |-> FALSE, first_move |-> FALSE, d_streak |-> 0,
             state |-> "C", move_count |-> 0, has_probed |-> FALSE]

Fields(s) == [opponent_d_played |-> s.opponent_d_played,
              first_move |-> s.first_move, d_streak |-> s.d_streak,
              state |-> s.state, move_count |-> s.move_count,
              has_probed |-> s.has_probed]

\* The fields right after __init__, per class.
Fresh(v, kind) ==
    CASE kind = "Mouse" -> NoFields
      [] kind = "Bully" -> [NoFields EXCEPT !.first_move = TRUE]
      [] OTHER -> NoFields

Mouse_reset(s) == [s EXCEPT !.opponent_d_played = FALSE]

Bully_reset_keeps_streak(s) == [s EXCEPT !.first_move = TRUE]

Bully_reset(s) == [s EXCEPT !.first_move = TRUE, !.d_streak = 0]

Retaliator_reset(s) == [s EXCEPT !.state = "C", !.move_count = 0]

ProberRetaliator_reset(v, s) ==
    IF v = "Gen"
    THEN [s EXCEPT !.move_count = 0, !.has_probed = FALSE]
    ELSE [s EXCEPT !.state = "C", !.move_count = 0, !.has_probed = FALSE]

LongRetaliator_reset(s) == [s EXCEPT !.move_count = 0]

\* Strategy.reset, dispatched on the class; Hawk and a caller's subclass
\* inherit the base class's `pass`.
reset(v, s) ==
    CASE s.kind = "Mouse" -> Mouse_reset(s)
      [] s.kind = "Bully" -> Bully_reset(s)
      [] s.kind = "Retaliator" -> Retaliator_reset(s)
      [] s.kind = "ProberRetaliator" -> ProberRetaliator_reset(v, s)
      [] s.kind = "LongRetaliator" -> LongRetaliator_reset(s)
      [] OTHER -> s

\* strat(): construction.  __init__ calls reset on an object with no fields.
New(v, kind, script) ==
    LET f == Fresh(v, kind)
    IN  [kind |-> kind, script |-> script,
         opponent_d_played |-> f.opponent_d_played,
         first_move |-> f.first_move, d_streak |-> f.d_streak,
         state |-> f.state, move_count |-> f.move_count,
         has_probed |-> f.has_probed]

Mouse_choose_move_early_cap(v, s, my_history, opp_history) ==
    IF v = "Gen"
    THEN LET seen == s.opponent_d_played
                     \/ \E k \in 1..Len(opp_history) : opp_history[k] = "D"
         IN  [move |-> IF Len(my_history) < MAX_MOVES - 1 /\ ~seen THEN "C" ELSE "R",
              self |-> [s EXCEPT !.opponent_d_played = seen]]
    ELSE LET seen == s.opponent_d_played
                     \/ (Len(opp_history) > 0 /\ Last(opp_history) = "D")
         IN  [move |-> IF seen THEN "R"
                       ELSE IF Len(my_history) < MAX_MOVES THEN "C" ELSE "R",
              self |-> [s EXCEPT !.opponent_d_played = seen]]

\* choose_move returns the move and leaves the instance changed: [move, self].
Mouse_choose_move(v, s, my_history, opp_history) ==
    IF v = "Gen"
    THEN LET seen == s.opponent_d_played
                     \/ \E k \in 1..Len(opp_history) : opp_history[k] = "D"
         IN  [move |-> IF Len(my_history) < MAX_MOVES /\ ~seen THEN "C" ELSE "R",
              self |-> [s EXCEPT !.opponent_d_played = seen]]
    ELSE LET seen == s.opponent_d_played
                     \/ (Len(opp_history) > 0 /\ Last(opp_history) = "D")
         IN  [move |-> IF seen THEN "R"
                       ELSE IF Len(my_history) < MAX_MOVES THEN "C" ELSE "R",
              self |-> [s EXCEPT !.opponent_d_played = seen]]

Hawk_choose_move(s) == [move |-> "D", self |-> s]

Bully_choose_move_no_opening(s, opp_history) ==
    LET streak == IF Len(opp_history) > 0 /\ Last(opp_history) = "D"
                  THEN s.d_streak + 1 ELSE 0
    IN  [move |-> IF streak >= 2 THEN "R" ELSE "C",
         self |-> [s EXCEPT !.d_streak = streak, !.first_move = FALSE]]

Bully_choose_move_streak_not_cleared(s, opp_history) ==
    IF s.first_move
    THEN [move |-> "D", self |-> [s EXCEPT !.first_move = FALSE]]
    ELSE LET streak == IF Len(opp_history) > 0 /\ Last(opp_history) = "D"
                       THEN s.d_streak + 1 ELSE s.d_streak
         IN  [move |-> IF streak >= 2 THEN "R" ELSE "C",
              self |-> [s EXCEPT !.d_streak = streak]]

Bully_choose_move(s, opp_history) ==
    IF s.first_move
    THEN [move |-> "D", self |-> [s EXCEPT !.first_move = FALSE]]
    ELSE LET streak == IF Len(opp_history) > 0 /\ Last(opp_history) = "D"
                       THEN s.d_streak + 1 ELSE 0
         IN  [move |-> IF streak >= 2 THEN "R" ELSE "C",
              self |-> [s EXCEPT !.d_streak = streak]]

Retaliator_choose_move(v, s, opp_history) ==
    LET t == [s EXCEPT !.move_count = s.move_count + 1]
    IN  IF t.move_count > MAX_MOVES
        THEN [move |-> "R", self |-> t]
        ELSE IF v = "Gen"
        THEN [move |-> IF Len(opp_history) > 0 /\ Last(opp_history) = "D"
                       THEN "D" ELSE "C",
              self |-> t]
        ELSE LET st == IF Len(opp_history) > 0
                       THEN (IF Last(opp_history) = "D" THEN "D" ELSE "C")
                       ELSE t.state
             IN  [move |-> st, self |-> [t EXCEPT !.state = st]]

ProberRetaliator_choose_move_never_concedes(v, s, my_history, opp_history, probe) ==
    LET t == [s EXCEPT !.move_count = s.move_count + 1]
    IN  IF t.move_count > MAX_MOVES
        THEN [move |-> "R", self |-> t]
        ELSE IF ~t.has_probed /\ Len(my_history) = 0 /\ probe
        THEN [move |-> "D",
              self |-> IF v = "Gen" THEN [t EXCEPT !.has_probed = TRUE]
                       ELSE [t EXCEPT !.has_probed = TRUE, !.state = "D"]]
        ELSE [move |-> IF t.has_probed THEN "D" ELSE "C", self |-> t]

\* `probe` is the outcome of random.random() < PROBE_PROB, drawn only on the
\* branch that reads it.
ProberRetaliator_choose_move(v, s, my_history, opp_history, probe) ==
    LET t == [s EXCEPT !.move_count = s.move_count + 1]
    IN  IF t.move_count > MAX_MOVES
        THEN [move |-> "R", self |-> t]
        ELSE IF ~t.has_probed /\ Len(my_history) = 0 /\ probe
        THEN [move |-> "D",
              self |-> IF v = "Gen" THEN [t EXCEPT !.has_probed = TRUE]
                       ELSE [t EXCEPT !.has_probed = TRUE, !.state = "D"]]
        ELSE IF v = "Gen"
        THEN [move |-> IF Len(opp_history) > 0 /\ Last(opp_history) = "D"
                       THEN "C"
                       ELSE IF t.has_probed THEN "D" ELSE "C",
              self |-> t]
        ELSE LET st == IF Len(opp_history) > 0
                       THEN (IF Last(opp_history) = "D" THEN "C"
                             ELSE IF t.has_probed /\ t.state = "D" THEN "D"
                             ELSE "C")
                       ELSE t.state
             IN  [move |-> st, self |-> [t EXCEPT !.state = st]]

LongRetaliator_choose_move(s, opp_history) ==
    LET t == [s EXCEPT !.move_count = s.move_count + 1]
        n == Len(opp_history)
    IN  IF t.move_count > MAX_MOVES
        THEN [move |-> "R", self |-> t]
        ELSE [move |-> IF n >= 2 /\ (opp_history[n - 1] = "D" \/ opp_history[n] = "D")
                       THEN "D" ELSE "C",
              self |-> t]

\* The outcomes of the probe draw a choose_move call can see: the draw is made
\* only by a ProberRetaliator on its first move, before it has probed.
ProbeDraws(s, my_history) ==
    IF /\ s.kind = "ProberRetaliator"
       /\ s.move_count + 1 <= MAX_MOVES
       /\ ~s.has_probed
       /\ Len(my_history) = 0
    THEN BOOLEAN ELSE {FALSE}

\* The caller's subclass overriding Strategy.choose_move.
Custom_choose_move(s, my_history) ==
    [move |-> s.script[Min(Len(my_history) + 1, Len(s.script))], self |-> s]

choose_move(v, s, my_history, opp_history, probe) ==
    CASE s.kind = "Mouse" -> Mouse_choose_move(v, s, my_history, opp_history)
      [] s.kind = "Hawk" -> Hawk_choose_move(s)
      [] s.kind = "Bully" -> Bully_choose_move(s, opp_history)
      [] s.kind = "Retaliator" -> Retaliator_choose_move(v, s, opp_history)
      [] s.kind = "ProberRetaliator" ->
            ProberRetaliator_choose_move(v, s, my_history, opp_history, probe)
      [] s.kind = "LongRetaliator" -> LongRetaliator_choose_move(s, opp_history)
      [] OTHER -> Custom_choose_move(s, my_history)

(***************************************************************************)
(* play_contest.                                                           *)
(***************************************************************************)
\* WIN_PAYOFF + max(time_bonus, 0) in round `m` (0-indexed)
time_bonus(m) == TIME_BONUS_START - TIME_BONUS_DECREMENT * m

WinAward_one_indexed(m) == WIN_PAYOFF + Max(time_bonus(m + 1), 0)

WinAward(m) == WIN_PAYOFF + Max(time_bonus(m), 0)

\* The retreat checks: the pair returned, or <<>> when nobody retreated.
CheckRetreats_winner_swapped(a, b, sa, sb, m) ==
    IF a = "R" /\ b = "R" THEN <<sa, sb>>
    ELSE IF a = "R" THEN <<sa + WinAward(m), sb>>
    ELSE IF b = "R" THEN <<sa, sb + WinAward(m)>>
    ELSE <<>>

CheckRetreats_double_pays(a, b, sa, sb, m) ==
    IF a = "R" THEN <<sa, sb + WinAward(m)>>
    ELSE IF b = "R" THEN <<sa + WinAward(m), sb>>
    ELSE <<>>

CheckRetreats(a, b, sa, sb, m) ==
    IF a = "R" /\ b = "R" THEN <<sa, sb>>
    ELSE IF a = "R" THEN <<sa, sb + WinAward(m)>>
    ELSE IF b = "R" THEN <<sa + WinAward(m), sb>>
    ELSE <<>>

\* The pair returned when A's dangerous act injures B, and when B's injures A.
InjuryByA(sa, sb, m) == <<sa + WinAward(m), sb + SERIOUS_INJURY>>

InjuryByB_scratch_too(sa, sb, m) == <<sa + SERIOUS_INJURY + SCRATCH, sb + WinAward(m)>>

InjuryByB(sa, sb, m) == <<sa + SERIOUS_INJURY, sb + WinAward(m)>>

\* `for moves in range(MAX_MOVES)`: whether the loop body runs for `m`.
InRange_inclusive(m) == m <= MAX_MOVES

InRange(m) == m < MAX_MOVES

\* strategyA.reset(); strategyB.reset(); histories and scores start empty.
Reset ==
    /\ pc = "call"
    /\ strategyA' = reset(variant, strategyA)
    /\ strategyB' = reset(variant, strategyB)
    /\ A_history' = <<>>
    /\ B_history' = <<>>
    /\ A_score' = 0
    /\ B_score' = 0
    /\ moves' = 0
    /\ pc' = "loop"
    /\ UNCHANGED <<variant, A_move, B_move, result, A_entry, B_entry, rolled,
                   injured, reused>>
    /\ UNCHANGED evoVars

\* One pass through the loop head: both choose_move calls, both appends and
\* the retreat checks.
Round ==
    /\ pc = "loop"
    /\ InRange(moves)
    /\ \E probeA \in ProbeDraws(strategyA, A_history),
          probeB \in ProbeDraws(strategyB, B_history) :
         LET a == choose_move(variant, strategyA, A_history, B_history, probeA)
             b == choose_move(variant, strategyB, B_history, A_history, probeB)
             r == CheckRetreats(a.move, b.move, A_score, B_score, moves)
         IN  /\ strategyA' = a.self
             /\ strategyB' = b.self
             /\ A_move' = a.move
             /\ B_move' = b.move
             /\ A_history' = Append(A_history, a.move)
             /\ B_history' = Append(B_history, b.move)
             /\ result' = r
             /\ pc' = IF r = <<>> THEN "dangerA" ELSE "done"
    /\ A_entry' = A_score
    /\ B_entry' = B_score
    /\ rolled' = {}
    /\ UNCHANGED <<variant, A_score, B_score, moves, injured, reused>>
    /\ UNCHANGED evoVars

DangerA_no_return ==
    /\ pc = "dangerA"
    /\ IF A_move = "D"
       THEN /\ rolled' = rolled \cup {"A"}
            /\ \E hit \in BOOLEAN :
                 IF hit
                 THEN /\ result' = InjuryByA(A_score, B_score, moves)
                      /\ injured' = "B"
                      /\ pc' = "dangerB"
                      /\ UNCHANGED B_score
                 ELSE /\ B_score' = B_score + SCRATCH
                      /\ pc' = "dangerB"
                      /\ UNCHANGED <<result, injured>>
       ELSE /\ pc' = "dangerB"
            /\ UNCHANGED <<rolled, result, injured, B_score>>
    /\ UNCHANGED <<variant, strategyA, strategyB, A_history, B_history, A_score,
                   moves, A_move, B_move, A_entry, B_entry, reused>>
    /\ UNCHANGED evoVars

\* if A_move == 'D': the roll, then the win or the scratch on B.
DangerA ==
    /\ pc = "dangerA"
    /\ IF A_move = "D"
       THEN /\ rolled' = rolled \cup {"A"}
            /\ \E hit \in BOOLEAN :
                 IF hit
                 THEN /\ result' = InjuryByA(A_score, B_score, moves)
                      /\ injured' = "B"
                      /\ pc' = "done"
                      /\ UNCHANGED B_score
                 ELSE /\ B_score' = B_score + SCRATCH
                      /\ pc' = "dangerB"
                      /\ UNCHANGED <<result, injured>>
       ELSE /\ pc' = "dangerB"
            /\ UNCHANGED <<rolled, result, injured, B_score>>
    /\ UNCHANGED <<variant, strategyA, strategyB, A_history, B_history, A_score,
                   moves, A_move, B_move, A_entry, B_entry, reused>>
    /\ UNCHANGED evoVars

\* if B_move == 'D': the roll, then the win or the scratch on A; the loop
\* variable advances.
DangerB ==
    /\ pc = "dangerB"
    /\ IF B_move = "D"
       THEN /\ rolled' = rolled \cup {"B"}
            /\ \E hit \in BOOLEAN :
                 IF hit
                 THEN /\ result' = InjuryByB(A_score, B_score, moves)
                      /\ injured' = "A"
                      /\ pc' = "done"
                      /\ UNCHANGED <<A_score, moves>>
                 ELSE /\ A_score' = A_score + SCRATCH
                      /\ moves' = moves + 1
                      /\ pc' = "loop"
                      /\ UNCHANGED <<result, injured>>
       ELSE /\ moves' = moves + 1
            /\ pc' = "loop"
            /\ UNCHANGED <<rolled, result, injured, A_score>>
    /\ UNCHANGED <<variant, strategyA, strategyB, A_history, B_history, B_score,
                   A_move, B_move, A_entry, B_entry, reused>>
    /\ UNCHANGED evoVars

Draw_pays_win ==
    /\ pc = "loop"
    /\ ~InRange(moves)
    /\ result' = <<A_score + WinAward(moves), B_score + WinAward(moves)>>
    /\ pc' = "done"
    /\ UNCHANGED <<variant, strategyA, strategyB, A_history, B_history, A_score,
                   B_score, moves, A_move, B_move, A_entry, B_entry, rolled,
                   injured, reused>>
    /\ UNCHANGED evoVars

\* The loop ran out: return (A_score, B_score).
Draw ==
    /\ pc = "loop"
    /\ ~InRange(moves)
    /\ result' = <<A_score, B_score>>
    /\ pc' = "done"
    /\ UNCHANGED <<variant, strategyA, strategyB, A_history, B_history, A_score,
                   B_score, moves, A_move, B_move, A_entry, B_entry, rolled,
                   injured, reused>>
    /\ UNCHANGED evoVars

\* A caller hands the same two instances to play_contest again; the locals
\* of the new call do not exist yet.
Replay ==
    /\ pc = "done"
    /\ epc = "none"
    /\ pc' = "call"
    /\ reused' = TRUE
    /\ A_history' = <<>>
    /\ B_history' = <<>>
    /\ A_score' = 0
    /\ B_score' = 0
    /\ moves' = 0
    /\ A_move' = "none"
    /\ B_move' = "none"
    /\ result' = <<>>
    /\ A_entry' = 0
    /\ B_entry' = 0
    /\ rolled' = {}
    /\ injured' = "none"
    /\ UNCHANGED <<variant, strategyA, strategyB>>
    /\ UNCHANGED evoVars

(***************************************************************************)
(* Frequencies and fitness: exact rationals <<n, d>> with d > 0, in lowest *)
(* terms.                                                                  *)
(***************************************************************************)
Abs(n) == IF n < 0 THEN -n ELSE n

RECURSIVE GCD(_, _)
GCD(a, b) == IF b = 0 THEN a ELSE GCD(b, a % b)

Rat(n, d) == LET g == GCD(Abs(n), d) IN <<n \div g, d \div g>>
\* (the common denominator and the cross-cancelling keep the products small)
RAdd(x, y) ==
    LET d == (x[2] \div GCD(x[2], y[2])) * y[2]
    IN  Rat(x[1] * (d \div x[2]) + y[1] * (d \div y[2]), d)
RSub(x, y) == RAdd(x, <<-y[1], y[2]>>)
RMul(x, y) ==
    LET a == Rat(x[1], y[2])
        b == Rat(y[1], x[2])
    IN  <<a[1] * b[1], a[2] * b[2]>>
\* x / y for y > 0
RDiv(x, y) == RMul(x, <<y[2], y[1]>>)
RLess(x, y) == x[1] * y[2] < y[1] * x[2]
RMax(x, y) == IF RLess(x, y) THEN y ELSE x
RMin(x, y) == IF RLess(y, x) THEN y ELSE x
\* int(x): truncation toward zero
int(x) == IF x[1] >= 0 THEN x[1] \div x[2] ELSE -((-x[1]) \div x[2])

RECURSIVE RSum(_)
RSum(fs) == IF fs = <<>> THEN <<0, 1>> ELSE RAdd(fs[1], RSum(Tail(fs)))

Freqs(pop) == [k \in 1..Len(pop) |-> pop[k][2]]

(***************************************************************************)
(* evolutionary_simulation.                                                *)
(***************************************************************************)
CountOf(s, kind) == Cardinality({ j \in 1..Len(s) : s[j] = kind })

Repeat(kind, n) == [j \in 1..n |-> kind]

\* The first loop of a generation: int(freq * population_size) individuals of
\* each class, in the order of the population list.
RECURSIVE Instantiate(_, _)
Instantiate(pop, n) ==
    IF pop = <<>> THEN <<>>
    ELSE LET count == int(RMul(pop[1][2], <<n, 1>>))
         IN  (IF count > 0 THEN Repeat(pop[1][1], count) ELSE <<>>)
             \o Instantiate(Tail(pop), n)

\* The classes random.choices can return: those of positive weight.
Weighted(pop) == { pop[k][1] : k \in { j \in 1..Len(pop) : pop[j][2][1] > 0 } }

\* Whether `s` can be the list after the two adjusting loops and the shuffle:
\* a short list was filled up with classes of positive weight, a long one lost
\* its last elements, and the shuffle left any order.
Adjusted(s, base, pop, n) ==
    IF Len(base) >= n
    THEN \A k \in 1..Len(pop) :
            CountOf(s, pop[k][1]) = CountOf(SubSeq(base, 1, n), pop[k][1])
    ELSE \A k \in 1..Len(pop) :
            /\ CountOf(s, pop[k][1]) >= CountOf(base, pop[k][1])
            /\ CountOf(s, pop[k][1]) > CountOf(base, pop[k][1])
                  => pop[k][1] \in Weighted(pop)

\* The locals of a play_contest call that has not started.
ContestCleared ==
    /\ A_history' = <<>>
    /\ B_history' = <<>>
    /\ A_score' = 0
    /\ B_score' = 0
    /\ moves' = 0
    /\ A_move' = "none"
    /\ B_move' = "none"
    /\ result' = <<>>
    /\ A_entry' = 0
    /\ B_entry' = 0
    /\ rolled' = {}
    /\ injured' = "none"

NoStrategy == New("Gen", "none", <<>>)

\* Lines 186-203: build, adjust and shuffle the individuals; payoffs = [0]*n.
Sample ==
    /\ epc = "loop"
    /\ gen < generations
    /\ LET base == Instantiate(population, population_size)
       IN  IF Len(base) < population_size /\ Weighted(population) = {}
           THEN \* random.choices raises: the weights sum to zero
                /\ epc' = "error"
                /\ individuals' = base
                /\ UNCHANGED payoffs
           ELSE /\ \E s \in [1..population_size ->
                               { population[k][1] : k \in 1..Len(population) }] :
                      /\ Adjusted(s, base, population, population_size)
                      /\ individuals' = s
                /\ payoffs' = [j \in 1..population_size |-> 0]
                /\ epc' = "pairs"
    /\ i' = 0
    /\ fired' = FALSE
    /\ UNCHANGED <<strategies, initial_distribution, generations, population_size,
                   mutation_on, population, gen, contests>>
    /\ UNCHANGED contestVars

\* The head of `for i in range(0, population_size, 2)`: A = individuals[i],
\* B = individuals[i+1] (an IndexError when i+1 is past the end), then the
\* call of play_contest.
PlayPair ==
    /\ epc = "pairs"
    /\ i < population_size
    /\ IF i + 2 > Len(individuals)
       THEN /\ epc' = "error"
            /\ UNCHANGED contestVars
       ELSE /\ epc' = "contest"
            /\ strategyA' = New("Gen", individuals[i + 1], <<>>)
            /\ strategyB' = New("Gen", individuals[i + 2], <<>>)
            /\ pc' = "call"
            /\ ContestCleared
            /\ UNCHANGED <<variant, reused>>
    /\ UNCHANGED <<strategies, initial_distribution, generations, population_size,
                   mutation_on, population, gen, individuals, payoffs, i, fired,
                   contests>>

\* play_contest returned: payoffs[i] += A_score; payoffs[i+1] += B_score.
Collect ==
    /\ epc = "contest"
    /\ pc = "done"
    /\ payoffs' = [payoffs EXCEPT ![i + 1] = @ + result[1],
                                  ![i + 2] = @ + result[2]]
    /\ i' = i + 2
    /\ contests' = contests + 1
    /\ epc' = "pairs"
    /\ pc' = "idle"
    /\ strategyA' = NoStrategy
    /\ strategyB' = NoStrategy
    /\ ContestCleared
    /\ UNCHANGED <<variant, reused>>
    /\ UNCHANGED <<strategies, initial_distribution, generations, population_size,
                   mutation_on, population, gen, individuals, fired>>

\* Lines 211-220: total payoff and head count of a class.
RECURSIVE strat_payoffs(_, _, _)
strat_payoffs(inds, pays, kind) ==
    IF inds = <<>> THEN 0
    ELSE (IF inds[1] = kind THEN pays[1] ELSE 0)
         + strat_payoffs(Tail(inds), Tail(pays), kind)

strat_counts(inds, kind) == CountOf(inds, kind)

fitness_floor_zero(inds, pays, kind) ==
    LET avg_pay == IF strat_counts(inds, kind) > 0
                   THEN Rat(strat_payoffs(inds, pays, kind), strat_counts(inds, kind))
                   ELSE <<0, 1>>
    IN  RMax(RAdd(avg_pay, <<100, 1>>), <<0, 1>>)

\* Lines 226-231: max(avg_pay + 100, 0.01), avg_pay = 0 for an absent class.
fitness(inds, pays, kind) ==
    LET avg_pay == IF strat_counts(inds, kind) > 0
                   THEN Rat(strat_payoffs(inds, pays, kind), strat_counts(inds, kind))
                   ELSE <<0, 1>>
    IN  RMax(RAdd(avg_pay, <<100, 1>>), <<1, 100>>)

Normalize_present_only(strats, inds, pays) ==
    LET new_population == [k \in 1..Len(strats) |->
                              <<strats[k], fitness(inds, pays, strats[k])>>]
        total_fitness == RSum([k \in 1..Len(strats) |->
                                  IF strat_counts(inds, strats[k]) > 0
                                  THEN new_population[k][2] ELSE <<0, 1>>])
    IN  [k \in 1..Len(strats) |->
            <<strats[k], RDiv(new_population[k][2], total_fitness)>>]

\* Lines 223-236: new_population, total_fitness and the normalised list.
Normalize(strats, inds, pays) ==
    LET new_population == [k \in 1..Len(strats) |->
                              <<strats[k], fitness(inds, pays, strats[k])>>]
        total_fitness == RSum(Freqs(new_population))
    IN  [k \in 1..Len(strats) |->
            <<strats[k], RDiv(new_population[k][2], total_fitness)>>]

Reproduce ==
    /\ epc = "pairs"
    /\ i >= population_size
    /\ population' = Normalize(strategies, individuals, payoffs)
    /\ epc' = "mutate"
    /\ UNCHANGED <<strategies, initial_distribution, generations, population_size,
                   mutation_on, gen, individuals, payoffs, i, fired, contests>>
    /\ UNCHANGED contestVars

\* Lines 240-253 for mut_index (1-based here).
Mutate(pop, mut_index) ==
    LET s == pop[mut_index][1]
        freq == pop[mut_index][2]
        mutation_amount == RMin(RMul(freq, <<1, 10>>), <<1, 20>>)
        reduced == [pop EXCEPT ![mut_index] = <<s, RSub(freq, mutation_amount)>>]
        hawks == { k \in 1..Len(pop) : pop[k][1] = "Hawk" }
    IN  IF s = "Hawk" THEN pop
        ELSE IF hawks = {} THEN reduced
        ELSE LET h == CHOOSE k \in hawks : \A j \in hawks : k <= j
             IN  [reduced EXCEPT ![h] = <<"Hawk", RAdd(reduced[h][2], mutation_amount)>>]

\* The mutation step and the end of the loop body.
Mutation ==
    /\ epc = "mutate"
    /\ \E draw \in (IF mutation_on THEN BOOLEAN ELSE {FALSE}) :
         /\ fired' = draw
         /\ IF draw
            THEN \E mut_index \in 1..Len(population) :
                    population' = Mutate(population, mut_index)
            ELSE UNCHANGED population
    /\ gen' = gen + 1
    /\ epc' = "loop"
    /\ UNCHANGED <<strategies, initial_distribution, generations, population_size,
                   mutation_on, individuals, payoffs, i, contests>>
    /\ UNCHANGED contestVars

\* The loop over the generations is exhausted: return population.
Return ==
    /\ epc = "loop"
    /\ gen = generations
    /\ epc' = "returned"
    /\ UNCHANGED <<strategies, initial_distribution, generations, population_size,
                   mutation_on, population, gen, individuals, payoffs, i, fired,
                   contests>>
    /\ UNCHANGED contestVars

Instances(v) ==
    { New(v, k, <<>>) : k \in Kinds(v) } \cup { New(v, "Custom", s) : s \in Scripts }

NoContest ==
    /\ A_history = <<>>
    /\ B_history = <<>>
    /\ A_score = 0
    /\ B_score = 0
    /\ moves = 0
    /\ A_move = "none"
    /\ B_move = "none"
    /\ result = <<>>
    /\ A_entry = 0
    /\ B_entry = 0
    /\ rolled = {}
    /\ injured = "none"
    /\ reused = FALSE

NoEvolution ==
    /\ strategies = <<>>
    /\ initial_distribution = <<>>
    /\ generations = 0
    /\ population_size = 0
    /\ mutation_on = FALSE
    /\ population = <<>>
    /\ gen = 0
    /\ individuals = <<>>
    /\ payoffs = <<>>
    /\ i = 0
    /\ epc = "none"
    /\ fired = FALSE
    /\ contests = 0

\* play_contest called on two freshly constructed instances of any classes of
\* one source file or of a caller's subclass.
Init ==
    /\ variant \in {"Gen", "Orig"}
    /\ strategyA \in Instances(variant)
    /\ strategyB \in Instances(variant)
    /\ pc = "call"
    /\ NoContest
    /\ NoEvolution

Next == Reset \/ Round \/ DangerA \/ DangerB \/ Draw \/ Replay

Spec == Init /\ [][Next]_vars

\* play_contest is sequential code: once called it keeps running until it
\* returns.  Whether a caller calls again is left open.
ContestStep == Reset \/ Round \/ DangerA \/ DangerB \/ Draw

SpecLive == Init /\ [][Next]_vars /\ WF_vars(ContestStep)

\* population = [(s, f) for s, f in zip(strategies, initial_distribution)]
zip(strats, dist) == [k \in 1..Min(Len(strats), Len(dist)) |-> <<strats[k], dist[k]>>]

\* Rosters a caller passes: with Hawk and without it.
Rosters == {<<"Mouse", "Hawk">>, <<"Mouse", "Bully", "Retaliator">>}

\* Distributions a caller passes: summing to 1, and not.
Distributions(n) ==
    IF n = 2
    THEN {<< <<1, 2>>, <<1, 2>> >>, << <<1, 1>>, <<0, 1>> >>,
          << <<1, 1>>, <<1, 1>> >>}
    ELSE {<< <<1, 3>>, <<1, 3>>, <<1, 3>> >>, << <<1, 4>>, <<1, 4>>, <<1, 2>> >>}

NoContestYet ==
    /\ variant = "Gen"
    /\ strategyA = NoStrategy
    /\ strategyB = NoStrategy
    /\ pc = "idle"
    /\ NoContest

\* evolutionary_simulation entered with any roster, distribution, generation
\* count and population size within the bounds.
InitEvo ==
    /\ strategies \in Rosters
    /\ initial_distribution \in Distributions(Len(strategies))
    /\ generations \in 0..MaxGenerations
    /\ population_size \in 1..MaxPopulation
    /\ mutation_on = TRUE
    /\ population = zip(strategies, initial_distribution)
    /\ gen = 0
    /\ individuals = <<>>
    /\ payoffs = <<>>
    /\ i = 0
    /\ epc = "loop"
    /\ fired = FALSE
    /\ contests = 0
    /\ NoContestYet

NextEvo ==
    \/ Sample \/ PlayPair \/ Reset \/ Round \/ DangerA \/ DangerB \/ Draw
    \/ Collect \/ Reproduce \/ Mutation \/ Return

SpecEvo == InitEvo /\ [][NextEvo]_vars

\* The end-to-end scenario: roster {Hawk, Mouse}, distribution {0.5, 0.5},
\* population_size 10, one generation, mutation probability 0.
InitHawkMouse ==
    /\ strategies = <<"Hawk", "Mouse">>
    /\ initial_distribution = << <<1, 2>>, <<1, 2>> >>
    /\ generations = 1
    /\ population_size = 10
    /\ mutation_on = FALSE
    /\ population = zip(strategies, initial_distribution)
    /\ gen = 0
    /\ individuals = <<>>
    /\ payoffs = <<>>
    /\ i = 0
    /\ epc = "loop"
    /\ fired = FALSE
    /\ contests = 0
    /\ NoContestYet

SpecHawkMouse == InitHawkMouse /\ [][NextEvo]_vars

(***************************************************************************)
(* Claims about play_contest.                                              *)
(***************************************************************************)
\* The win payoff plus the time bonus of round r, as the specification
\* writes it.
SpecAward(r) == WIN_PAYOFF + Max(0, TIME_BONUS_START - TIME_BONUS_DECREMENT * r)

\* C1: when both sides play Retreat in a round, the contest ends in that
\* round and the returned scores are the scores both sides had on entering
\* it: no win payoff, no time bonus.
C1_MutualRetreat ==
    (A_move = "R" /\ B_move = "R") =>
        /\ pc = "done"
        /\ Len(A_history) = moves + 1
        /\ result = <<A_entry, B_entry>>

C1_Witness ==
    /\ pc = "done"
    /\ A_move = "R"
    /\ B_move = "R"
    /\ moves >= 1
    /\ A_entry # 0
    /\ B_entry # 0

\* C2: when exactly one side plays Retreat in round r, the contest ends in
\* that round, the other side's final score is its pre-round score plus
\* WIN_PAYOFF + max(0, TIME_BONUS_START - TIME_BONUS_DECREMENT * r), the
\* retreating side keeps its pre-round score, and the bonus is not negative.
C2_SolitaryRetreat ==
    /\ (A_move = "R" /\ B_move \in Returnable \ {"R"}) =>
          /\ pc = "done"
          /\ Len(A_history) = moves + 1
          /\ result = <<A_entry, B_entry + SpecAward(moves)>>
          /\ TIME_BONUS_START - TIME_BONUS_DECREMENT * moves >= 0
    /\ (B_move = "R" /\ A_move \in Returnable \ {"R"}) =>
          /\ pc = "done"
          /\ Len(A_history) = moves + 1
          /\ result = <<A_entry + SpecAward(moves), B_entry>>
          /\ TIME_BONUS_START - TIME_BONUS_DECREMENT * moves >= 0

C2_Witness ==
    /\ pc = "done"
    /\ A_move = "R"
    /\ B_move = "D"
    /\ moves >= 2
    /\ B_entry # 0

\* C3 as claimed: an injury in round r ends the contest, the injured side
\* ends with its pre-round score plus SERIOUS_INJURY and the acting side with
\* its pre-round score plus the win payoff and bonus of round r, on both
\* sides.
C3_InjuryAsClaimed ==
    /\ injured = "B" =>
          /\ pc = "done"
          /\ result = <<A_entry + SpecAward(moves), B_entry + SERIOUS_INJURY>>
    /\ injured = "A" =>
          /\ pc = "done"
          /\ result = <<A_entry + SERIOUS_INJURY, B_entry + SpecAward(moves)>>

\* C3 amended: as claimed, except that when B injures A in a round in which
\* A also played Dangerous-act, B's final score also carries the SCRATCH that
\* A's failed act charged to B in that round.
C3_Injury ==
    /\ injured = "B" =>
          /\ pc = "done"
          /\ result = <<A_entry + SpecAward(moves), B_entry + SERIOUS_INJURY>>
    /\ injured = "A" =>
          /\ pc = "done"
          /\ result = <<A_entry + SERIOUS_INJURY,
                        B_entry + SpecAward(moves)
                            + (IF A_move = "D" THEN SCRATCH ELSE 0)>>

C3_Witness ==
    /\ pc = "done"
    /\ injured = "A"
    /\ A_move = "D"
    /\ moves >= 1

\* C4: when both sides play Dangerous-act in a round, A's roll is resolved
\* first: if it injures B the contest ends with A the winner and B's roll is
\* never drawn; B's roll is drawn only after A's roll failed and B was charged
\* the scratch.
C4_ARollsFirst ==
    (A_move = "D" /\ B_move = "D") =>
        /\ injured = "B" =>
              /\ pc = "done"
              /\ rolled = {"A"}
              /\ result = <<A_entry + SpecAward(moves), B_entry + SERIOUS_INJURY>>
        /\ "B" \in rolled =>
              /\ "A" \in rolled
              /\ injured # "B"
              /\ B_score = B_entry + SCRATCH

C4_Witness ==
    /\ A_move = "D"
    /\ B_move = "D"
    /\ injured = "B"
    /\ pc = "done"
    /\ moves >= 1

\* C8: at the first choose_move call of every contest, each instance's
\* fields are those of a freshly constructed instance of its class, whatever
\* contests the instance went through before.
C8_NoStateLeak ==
    (pc = "loop" /\ moves = 0) =>
        /\ Fields(strategyA) = Fresh(variant, strategyA.kind)
        /\ Fields(strategyB) = Fresh(variant, strategyB.kind)

C8_Witness ==
    /\ pc = "loop"
    /\ moves = 0
    /\ reused
    /\ strategyA.kind = "Bully"
    /\ strategyB.kind = "ProberRetaliator"

\* C9: once a choose_move has returned a value outside {C, D, R},
\* play_contest neither goes on with the contest nor returns a score pair.
C9_IllegalMoveFailsFast ==
    (A_move = "X" \/ B_move = "X") =>
        /\ pc \notin {"dangerA", "dangerB", "loop"}
        /\ result = <<>>

\* Rounds begun in the current contest: the loop variable, plus one while a
\* round is being resolved or has just ended the contest.
HistoryShape ==
    /\ Len(A_history) = Len(B_history)
    /\ Len(A_history) <= MAX_MOVES
    /\ moves <= MAX_MOVES
    /\ pc = "loop" => Len(A_history) = moves
    /\ pc \in {"dangerA", "dangerB"} => Len(A_history) = moves + 1

\* C11: every contest ends after at most MAX_MOVES rounds, and in every
\* state the two histories have equal length, never exceed MAX_MOVES, and
\* grow by exactly one move per side in each round.
C11_TerminatesWithinCap ==
    /\ []HistoryShape
    /\ [][\/ A_history' = A_history /\ B_history' = B_history
          \/ A_history' = <<>> /\ B_history' = <<>>
          \/ /\ pc = "loop"
             /\ Len(A_history') = Len(A_history) + 1
             /\ Len(B_history') = Len(B_history) + 1
             /\ SubSeq(A_history', 1, Len(A_history)) = A_history
             /\ SubSeq(B_history', 1, Len(B_history)) = B_history]_vars
    /\ (pc = "call") ~> (pc = "done")

C11_Witness ==
    /\ pc = "done"
    /\ Len(A_history) = MAX_MOVES
    /\ Len(B_history) = MAX_MOVES
    /\ moves = MAX_MOVES
    /\ injured = "none"

RepoKinds == GenKinds \cup OrigKinds

\* The opening move the specification gives each kind; `probe` tells whether
\* ProberRetaliator's probe draw fell below PROBE_PROB.
OpeningMove(kind, probe) ==
    IF kind \in {"Mouse", "Retaliator", "LongRetaliator"} THEN "C"
    ELSE IF kind \in {"Hawk", "Bully"} THEN "D"
    ELSE IF probe THEN "D" ELSE "C"

\* C12: on the first round of a contest (both histories empty) Mouse,
\* Retaliator and LongRetaliator return C, Hawk and Bully return D,
\* ProberRetaliator returns D exactly when its probe draw fires and C
\* otherwise; no kind opens with R, and the move recorded first in each
\* history is that opening move.
C12_FirstRound ==
    /\ (pc = "loop" /\ moves = 0) =>
          /\ A_history = <<>> /\ B_history = <<>>
          /\ \A probe \in BOOLEAN :
               /\ strategyA.kind \in RepoKinds =>
                     choose_move(variant, strategyA, A_history, B_history, probe).move
                        = OpeningMove(strategyA.kind, probe)
               /\ strategyB.kind \in RepoKinds =>
                     choose_move(variant, strategyB, B_history, A_history, probe).move
                        = OpeningMove(strategyB.kind, probe)
    /\ (Len(A_history) >= 1 /\ strategyA.kind \in RepoKinds) =>
          /\ A_history[1] = OpeningMove(strategyA.kind, strategyA.has_probed)
          /\ A_history[1] \in {"C", "D"}
    /\ (Len(B_history) >= 1 /\ strategyB.kind \in RepoKinds) =>
          /\ B_history[1] = OpeningMove(strategyB.kind, strategyB.has_probed)
          /\ B_history[1] \in {"C", "D"}

C12_Witness ==
    /\ pc = "dangerA"
    /\ moves = 0
    /\ reused
    /\ strategyA.kind = "ProberRetaliator"
    /\ A_history = <<"D">>
    /\ strategyB.kind = "Bully"
    /\ B_history = <<"D">>

\* Whether one of the opponent's moves in the two rounds before round k
\* (1-based; fewer when fewer were played) was Dangerous-act.
RecentD(opp_history, k) ==
    \E j \in {k - 2, k - 1} \cap (1..Len(opp_history)) : opp_history[j] = "D"

\* The moves of `mine` follow LongRetaliator's rule as the specification
\* states it.
LooksBackTwo(mine, opp_history) ==
    \A k \in 1..Len(mine) :
        mine[k] = IF RecentD(opp_history, k) THEN "D" ELSE "C"

\* C13: LongRetaliator plays Dangerous-act in a round whenever either of the
\* opponent's last two moves (or its only move so far) was Dangerous-act, and
\* Cooperate otherwise; in particular it retaliates in round 1 when the
\* opponent played Dangerous-act in round 0.
C13_LongRetaliatorLooksBackTwo ==
    /\ strategyA.kind = "LongRetaliator" => LooksBackTwo(A_history, B_history)
    /\ strategyB.kind = "LongRetaliator" => LooksBackTwo(B_history, A_history)

\* The move a Retaliator of the same source file returns in round k (1-based)
\* of a contest in which the opponent has played opp_history.
RetaliatorMove(v, opp_history, k) ==
    Retaliator_choose_move(v,
        [New(v, "Retaliator", <<>>) EXCEPT !.move_count = k - 1],
        SubSeq(opp_history, 1, k - 1)).move

AsRetaliator(v, mine, opp_history) ==
    \A k \in 1..Len(mine) : mine[k] = RetaliatorMove(v, opp_history, k)

\* C14: a ProberRetaliator whose first-move probe did not fire returns in
\* every round the move a Retaliator returns on the same opponent history:
\* Dangerous-act when the opponent's most recent move was Dangerous-act,
\* otherwise Cooperate.
C14_UnprobedProberIsRetaliator ==
    /\ (strategyA.kind = "ProberRetaliator" /\ ~strategyA.has_probed) =>
          AsRetaliator(variant, A_history, B_history)
    /\ (strategyB.kind = "ProberRetaliator" /\ ~strategyB.has_probed) =>
          AsRetaliator(variant, B_history, A_history)

\* The moves of a probed ProberRetaliator after its opening D, as the claim
\* states them, and as OriginalSimulation.py plays them.
ProbedAsClaimed(mine, opp_history) ==
    \A k \in 2..Len(mine) :
        mine[k] = IF opp_history[k - 1] = "D" THEN "C" ELSE "D"

ProbedOrig(mine, opp_history) ==
    \A k \in 2..Len(mine) :
        mine[k] = IF \E j \in 1..(k - 1) : opp_history[j] = "D" THEN "C" ELSE "D"

ProbesFirstOnly(s, mine) ==
    Len(mine) >= 1 => (s.has_probed <=> mine[1] = "D")

\* C15 as claimed: ProberRetaliator probes only on its first move, and once
\* it has probed it plays Cooperate after an opponent's Dangerous-act and
\* Dangerous-act after any other opponent move, in both source files.
C15_ProbedProberAsClaimed ==
    /\ strategyA.kind = "ProberRetaliator" =>
          /\ ProbesFirstOnly(strategyA, A_history)
          /\ strategyA.has_probed => ProbedAsClaimed(A_history, B_history)
    /\ strategyB.kind = "ProberRetaliator" =>
          /\ ProbesFirstOnly(strategyB, B_history)
          /\ strategyB.has_probed => ProbedAsClaimed(B_history, A_history)

\* C15 amended: as claimed in GenerationalResult.py; in OriginalSimulation.py
\* a probed ProberRetaliator plays Dangerous-act until the opponent's first
\* Dangerous-act and Cooperate in every round after it.
C15_ProbedProber ==
    /\ strategyA.kind = "ProberRetaliator" =>
          /\ ProbesFirstOnly(strategyA, A_history)
          /\ strategyA.has_probed =>
                IF variant = "Gen" THEN ProbedAsClaimed(A_history, B_history)
                ELSE ProbedOrig(A_history, B_history)
    /\ strategyB.kind = "ProberRetaliator" =>
          /\ ProbesFirstOnly(strategyB, B_history)
          /\ strategyB.has_probed =>
                IF variant = "Gen" THEN ProbedAsClaimed(B_history, A_history)
                ELSE ProbedOrig(B_history, A_history)

C15_Witness ==
    /\ variant = "Orig"
    /\ strategyA.kind = "ProberRetaliator"
    /\ strategyA.has_probed
    /\ strategyB.kind = "Bully"
    /\ A_history = <<"D", "C", "C">>
    /\ B_history = <<"D", "C", "C">>

\* The moves of `mine` follow Bully's rule; positions are rounds plus one.
BullyRule(mine, opp_history) ==
    \A k \in 1..Len(mine) :
        /\ mine[k] = IF k = 1 THEN "D"
                     ELSE IF k >= 3 /\ opp_history[k - 1] = "D"
                                    /\ opp_history[k - 2] = "D"
                     THEN "R" ELSE "C"
        /\ mine[k] = "R" => (k >= 3 /\ k = Len(mine) /\ pc = "done")

\* C16: Bully plays Dangerous-act in round 0 whatever the opponent does; in
\* each round k >= 1 it plays Retreat exactly when the opponent's moves in
\* rounds k-1 and k-2 were both Dangerous-act, and Cooperate otherwise; it
\* never retreats before round 2, and after it retreated it makes no further
\* move in that contest.
C16_BullyRule ==
    /\ strategyA.kind = "Bully" => BullyRule(A_history, B_history)
    /\ strategyB.kind = "Bully" => BullyRule(B_history, A_history)

C16_Witness ==
    /\ strategyA.kind = "Bully"
    /\ strategyB.kind = "ProberRetaliator"
    /\ A_history = <<"D", "C", "C", "C", "R">>
    /\ B_history = <<"D", "C", "D", "D", "D">>
    /\ pc = "done"

\* play_contest returned with no retreat in the last round played and no
\* injury.
DrawnContest ==
    /\ pc = "done"
    /\ injured = "none"
    /\ A_move # "R"
    /\ B_move # "R"

\* C17: a contest that reaches the round cap with no retreat and no injury
\* returns a draw in which each side's score is SCRATCH times the number of
\* Dangerous-acts the opponent played; no win payoff and no time bonus is
\* added.
C17_DrawAtCap ==
    DrawnContest =>
        /\ moves = MAX_MOVES
        /\ Len(A_history) = MAX_MOVES
        /\ Len(B_history) = MAX_MOVES
        /\ result = <<SCRATCH * CountOf(B_history, "D"),
                      SCRATCH * CountOf(A_history, "D")>>

C17_Witness ==
    /\ DrawnContest
    /\ result # <<>>
    /\ result[1] < result[2]
    /\ result[2] < 0

\* Mouse's moves as the claim states them: Cooperate until the opponent has
\* played a Dangerous-act, Retreat in the round after it.
MouseRule(mine, opp_history) ==
    \A k \in 1..Len(mine) :
        mine[k] = IF \E j \in 1..(k - 1) : opp_history[j] = "D" THEN "R" ELSE "C"

\* At a choose_move call of play_contest, the Mouse of either source file
\* returns the same move and is left with the same fields.
MouseVariantsAgree(s, mine, opp_history) ==
    Mouse_choose_move("Gen", s, mine, opp_history)
        = Mouse_choose_move("Orig", s, mine, opp_history)

\* C19: inside play_contest the two Mouse variants are indistinguishable: at
\* every call they return the same move and keep the same fields, namely
\* Cooperate until the round after the opponent's first Dangerous-act and
\* Retreat in that round.
C19_MouseVariantsEquivalent ==
    /\ strategyA.kind = "Mouse" =>
          /\ MouseRule(A_history, B_history)
          /\ (pc = "loop" /\ InRange(moves)) =>
                MouseVariantsAgree(strategyA, A_history, B_history)
    /\ strategyB.kind = "Mouse" =>
          /\ MouseRule(B_history, A_history)
          /\ (pc = "loop" /\ InRange(moves)) =>
                MouseVariantsAgree(strategyB, B_history, A_history)

C19_Witness ==
    /\ variant = "Orig"
    /\ strategyA.kind = "Mouse"
    /\ strategyB.kind = "Custom"
    /\ A_history = <<"C", "C", "R">>
    /\ B_history = <<"C", "D", "D">>
    /\ pc = "done"
    /\ reused

(***************************************************************************)
(* Claims about evolutionary_simulation.                                   *)
(***************************************************************************)
One == <<1, 1>>
Zero == <<0, 1>>

FreqOf(pop, kind) == pop[CHOOSE k \in 1..Len(pop) : pop[k][1] = kind][2]

\* A generation has just been completed (mutation step included).
GenerationDone == gen >= 1 /\ epc \in {"loop", "returned"}

\* C5: after every generation every frequency is >= 0 and the frequencies
\* sum to 1, for any roster and any initial distribution summing to 1.
C5_DistributionSumsToOne ==
    (GenerationDone /\ RSum(initial_distribution) = One) =>
        /\ \A k \in 1..Len(population) : ~RLess(population[k][2], Zero)
        /\ RSum(Freqs(population)) = One

\* C6: whenever the mutation draw fires, some kind other than Hawk loses an
\* amount m with 0 < m <= 0.05, Hawk gains the same m, every other frequency
\* stays as it was and none becomes negative.
C6_MutationTransfers ==
    [][(epc = "mutate" /\ fired') =>
        /\ \E src \in 1..Len(population) :
             LET m == RSub(population[src][2], population'[src][2])
             IN  /\ population[src][1] # "Hawk"
                 /\ RLess(Zero, m)
                 /\ ~RLess(<<1, 20>>, m)
                 /\ \E h \in 1..Len(population) :
                      /\ population[h][1] = "Hawk"
                      /\ population'[h][2] = RAdd(population[h][2], m)
                      /\ \A k \in 1..Len(population) \ {src, h} :
                            population'[k] = population[k]
        /\ \A k \in 1..Len(population) : ~RLess(population'[k][2], Zero)]_vars

\* The pairs of the shuffled list that set a Hawk against a Mouse.
MixedPairs ==
    Cardinality({ j \in 1..(Len(individuals) \div 2) :
                    individuals[2 * j - 1] # individuals[2 * j] })

\* C7 as claimed: in the Hawk/Mouse scenario Hawk's resulting frequency is
\* strictly greater than Mouse's, whatever the shuffle and the injury rolls.
C7_HawkAboveMouseAsClaimed ==
    epc = "returned" =>
        RLess(FreqOf(population, "Mouse"), FreqOf(population, "Hawk"))

\* C7 amended: Hawk's resulting frequency is strictly greater than Mouse's
\* for every outcome of the injury rolls whenever the shuffle sets at least
\* three of the five Hawks against Mice.
C7_HawkAboveMouse ==
    (epc = "returned" /\ MixedPairs >= 3) =>
        RLess(FreqOf(population, "Mouse"), FreqOf(population, "Hawk"))

C7_Witness ==
    /\ epc = "returned"
    /\ gen = 1
    /\ contests = 5
    /\ MixedPairs = 3
    /\ RLess(FreqOf(population, "Mouse"), FreqOf(population, "Hawk"))

\* An inconsistent configuration: an odd population size, a zero generation
\* count, or an initial distribution that does not sum to 1.
BadConfig ==
    /\ epc # "none"
    /\ \/ population_size % 2 = 1
       \/ generations = 0
       \/ RSum(initial_distribution) # One

\* C10: an inconsistent configuration is rejected before any population is
\* sampled or any contest is played: the run never samples, never resolves a
\* contest and never returns a result.
C10_RejectedAtBoundary ==
    BadConfig =>
        /\ individuals = <<>>
        /\ contests = 0
        /\ epc # "returned"

\* This generation's fitness of the k-th kind of the roster, and the mean
\* over the roster.
FitnessOf(k) == fitness(individuals, payoffs, strategies[k])

MeanFitness ==
    RDiv(RSum([k \in 1..Len(strategies) |-> FitnessOf(k)]), <<Len(strategies), 1>>)

EqualShare == <<1, Len(strategies)>>

\* C18 as claimed: in every generation a kind whose fitness is above the mean
\* fitness of the roster ends the generation with a strictly higher frequency
\* than it had at the start of the generation, and a kind whose fitness is
\* below the mean with a strictly lower one.
C18_ReplicatorAsClaimed ==
    [][(epc = "pairs" /\ epc' = "mutate") =>
        \A k \in 1..Len(strategies) :
            /\ RLess(MeanFitness, FitnessOf(k)) =>
                  RLess(population[k][2], population'[k][2])
            /\ RLess(FitnessOf(k), MeanFitness) =>
                  RLess(population'[k][2], population[k][2])]_vars

\* C18 amended: the frequency a kind has after normalisation depends on this
\* generation's fitness alone: it is above 1/n (n kinds in the roster) when
\* the kind's fitness is above the mean, below 1/n when it is below the mean,
\* and 1/n when it equals the mean.
C18_Replicator ==
    epc = "mutate" =>
        \A k \in 1..Len(strategies) :
            /\ population[k][2] = RDiv(FitnessOf(k), RMul(MeanFitness, <<Len(strategies), 1>>))
            /\ RLess(MeanFitness, FitnessOf(k)) <=> RLess(EqualShare, population[k][2])
            /\ RLess(FitnessOf(k), MeanFitness) <=> RLess(population[k][2], EqualShare)

C18_Witness ==
    /\ epc = "mutate"
    /\ gen = 1
    /\ RSum(initial_distribution) = One
    /\ \E k \in 1..Len(strategies) :
          /\ RLess(MeanFitness, FitnessOf(k))
          /\ RLess(EqualShare, population[k][2])
          /\ RLess(population[k][2], <<2, 5>>)

\* C20: no kind goes extinct: at the end of every generation, and between
\* normalisation and the mutation step, every kind of the roster is in the
\* population with a strictly positive frequency; a kind with no sampled
\* individual in the generation has fitness 100, and a kind the mutation
\* step took from keeps a positive frequency.
C20_NoExtinction ==
    /\ (GenerationDone \/ epc = "mutate") =>
          /\ Len(population) = Len(strategies)
          /\ \A k \in 1..Len(strategies) :
                /\ population[k][1] = strategies[k]
                /\ RLess(Zero, population[k][2])
    /\ epc = "mutate" =>
          \A k \in 1..Len(strategies) :
              CountOf(individuals, strategies[k]) = 0 => FitnessOf(k) = <<100, 1>>

C20_Witness ==
    /\ GenerationDone
    /\ gen = 2
    /\ fired
    /\ "Hawk" \notin { strategies[k] : k \in 1..Len(strategies) }
    /\ \E k \in 1..Len(strategies) :
          /\ CountOf(individuals, strategies[k]) = 0
          /\ RLess(Zero, population[k][2])
    /\ RLess(RSum(Freqs(population)), One)

====
